---- MODULE Spec2Model ----
(***************************************************************************)
(* Resolution of cron field clauses (Specifier / RootSpecifier) into       *)
(* ordinal sets, and the read-only query interface over a resolved field,  *)
(* as implemented by the traits TimeUnitField and TimeUnitSpec of          *)
(* src/time_unit/mod.rs.                                                   *)
(*                                                                         *)
(* Ordinal is an unsigned 32-bit integer.  Every sum the code forms        *)
(* (inclusive_max + 1, end + 1 on a validated end) stays far below 2^32    *)
(* on the axes modelled here, so ordinals are plain naturals.              *)
(***************************************************************************)
EXTENDS Integers, Sequences, FiniteSets, TLC

VARIABLES
    axis,     \* the implementor of TimeUnitField the calls are made on (Self)
    pc,       \* "idle" | "resolved" | "building" | "failed" | "built" | "queried"
    call,     \* the associated function last called ("" when none)
    arg,      \* the Specifier / RootSpecifier given to the last resolving call
    result,   \* the Result<OrdinalSet, Error> of the last resolving call
    acc,      \* the union of the clause sets resolved so far for the field
    nclauses, \* number of clauses resolved for the field
    field,    \* the constructed field: its Option<OrdinalSet>
    answer    \* the answers of the query interface on the constructed field

vars == <<axis, pc, call, arg, result, acc, nclauses, field, answer>>

---------------------------------------------------------------------------
(* Bounds of the model *)

\* values and steps are drawn from 0 .. inclusive_max + MaxOver
MaxOver == 1
\* distance from inclusive_min / inclusive_max of the values called "edge"
MaxEdge == 1
\* axes with inclusive_max above this take the endpoints of a stepped
\* range from the edge values only
MaxDense == 31
\* clauses resolved for one field
MaxClauses == 2

---------------------------------------------------------------------------
(* Axes: the implementors of TimeUnitField.  name(), inclusive_min(),      *)
(* inclusive_max() and the name tables are required methods that the trait *)
(* leaves to the per-axis modules.  Seconds and Years go through the same  *)
(* generic resolver and differ from the axes below only in these values.   *)

NoNames == [n \in {} |-> 0]

Minutes == [name |-> "Minutes", min |-> 0, max |-> 59, named |-> FALSE, table |-> NoNames]

Hours == [name |-> "Hours", min |-> 0, max |-> 23, named |-> FALSE, table |-> NoNames]

DaysOfMonth == [name |-> "Days of Month", min |-> 1, max |-> 31, named |-> FALSE, table |-> NoNames]

Months == [name |-> "Months", min |-> 1, max |-> 12, named |-> TRUE,
           table |-> [n \in {"jan", "mar", "dec"} |->
                        CASE n = "jan" -> 1 [] n = "mar" -> 3 [] n = "dec" -> 12]]

DaysOfWeek == [name |-> "Days of Week", min |-> 1, max |-> 7, named |-> TRUE,
               table |-> [n \in {"tue", "sat"} |->
                            CASE n = "tue" -> 3 [] n = "sat" -> 7]]

Axes == {Minutes, Hours, DaysOfMonth, Months, DaysOfWeek}

\* the symbolic names given as inputs
Names == {"JAN", "mar", "DEC", "TUE", "sat", "XYZ"}

\* case folding of a name before the table lookup
to_lowercase(n) ==
    CASE n = "JAN" -> "jan"
      [] n = "DEC" -> "dec"
      [] n = "TUE" -> "tue"
      [] n = "XYZ" -> "xyz"
      [] OTHER -> n

---------------------------------------------------------------------------
(* Result<_, Error>.  An Error carries the message built by format!: the  *)
(* template (rule), the axis name interpolated into it ("" when the       *)
(* template has no axis placeholder), and the numbers and names            *)
(* interpolated after it, in order.                                        *)

NoError == [rule |-> "", axis |-> "", nums |-> <<>>, names |-> <<>>]

Expression(rule, axisName, nums, names) ==
    [rule |-> rule, axis |-> axisName, nums |-> nums, names |-> names]

Ok(set) == [ok |-> TRUE, set |-> set, err |-> NoError]

Err(e) == [ok |-> FALSE, set |-> {}, err |-> e]

OkOrdinal(v) == [ok |-> TRUE, val |-> v, err |-> NoError]

ErrOrdinal(e) == [ok |-> FALSE, val |-> 0, err |-> e]

NoResult == [ok |-> FALSE, set |-> {}, err |-> NoError]

---------------------------------------------------------------------------
(* Specifier and RootSpecifier *)

All == [tag |-> "All"]

Point(v) == [tag |-> "Point", v |-> v]

Range(lo, hi) == [tag |-> "Range", lo |-> lo, hi |-> hi]

NamedRange(a, b) == [tag |-> "NamedRange", lo |-> a, hi |-> b]

Specifier(s) == [tag |-> "Specifier", spec |-> s]

Period(base, step) == [tag |-> "Period", base |-> base, step |-> step]

NamedPoint(n) == [tag |-> "NamedPoint", name |-> n]

NoArg == [tag |-> "None"]

---------------------------------------------------------------------------
(* TimeUnitField *)

\* a half-open Rust range start..end
HalfOpen(start, end) == {i \in start..(end - 1) : TRUE}

supported_ordinals(ax) == HalfOpen(ax.min, ax.max + 1)

\* variant: the message leaves out the name that was given
ordinal_from_name_default_no_name(ax, name) ==
    ErrOrdinal(Expression("The '{}' field does not support using names. '{}' specified.",
                          ax.name, <<>>, <<>>))

ordinal_from_name_default(ax, name) ==
    ErrOrdinal(Expression("The '{}' field does not support using names. '{}' specified.",
                          ax.name, <<>>, <<name>>))

ordinal_from_name_table(ax, name) ==
    IF to_lowercase(name) \in DOMAIN ax.table
    THEN OkOrdinal(ax.table[to_lowercase(name)])
    ELSE ErrOrdinal(Expression("'{}' is not a valid name for {}.", ax.name, <<>>, <<name>>))

ordinal_from_name(ax, name) ==
    IF ax.named THEN ordinal_from_name_table(ax, name)
    ELSE ordinal_from_name_default(ax, name)

\* variant: the upper bound is taken as exclusive
validate_ordinal_exclusive_max(ax, ordinal) ==
    IF ordinal < ax.min
    THEN ErrOrdinal(Expression("{} must be greater than or equal to {}. ('{}' specified.)",
                               ax.name, <<ax.min, ordinal>>, <<>>))
    ELSE IF ordinal >= ax.max
    THEN ErrOrdinal(Expression("{} must be less than {}. ('{}' specified.)",
                               ax.name, <<ax.max, ordinal>>, <<>>))
    ELSE OkOrdinal(ordinal)

\* variant: the messages leave out the ordinal that was given
validate_ordinal_no_value(ax, ordinal) ==
    IF ordinal < ax.min
    THEN ErrOrdinal(Expression("{} must be greater than or equal to {}. ('{}' specified.)",
                               ax.name, <<ax.min>>, <<>>))
    ELSE IF ordinal > ax.max
    THEN ErrOrdinal(Expression("{} must be less than {}. ('{}' specified.)",
                               ax.name, <<ax.max>>, <<>>))
    ELSE OkOrdinal(ordinal)

validate_ordinal(ax, ordinal) ==
    IF ordinal < ax.min
    THEN ErrOrdinal(Expression("{} must be greater than or equal to {}. ('{}' specified.)",
                               ax.name, <<ax.min, ordinal>>, <<>>))
    ELSE IF ordinal > ax.max
    THEN ErrOrdinal(Expression("{} must be less than {}. ('{}' specified.)",
                               ax.name, <<ax.max, ordinal>>, <<>>))
    ELSE OkOrdinal(ordinal)

ordinals_from_specifier(ax, s) ==
    CASE s.tag = "All" -> Ok(supported_ordinals(ax))
      [] s.tag = "Point" -> Ok({s.v})
      [] s.tag = "Range" ->
            LET start == validate_ordinal(ax, s.lo)
                end   == validate_ordinal(ax, s.hi)
            IN  IF start.ok /\ end.ok /\ start.val <= end.val
                THEN Ok(HalfOpen(start.val, end.val + 1))
                ELSE Err(Expression("Invalid range for {}: {}-{}",
                                    ax.name, <<s.lo, s.hi>>, <<>>))
      [] s.tag = "NamedRange" ->
            LET startName == ordinal_from_name(ax, s.lo)
                endName   == ordinal_from_name(ax, s.hi)
            IN  IF ~startName.ok THEN Err(startName.err)
                ELSE IF ~endName.ok THEN Err(endName.err)
                ELSE LET start == validate_ordinal(ax, startName.val)
                         end   == validate_ordinal(ax, endName.val)
                     IN  IF start.ok /\ end.ok /\ start.val <= end.val
                         THEN Ok(HalfOpen(start.val, end.val + 1))
                         ELSE Err(Expression("Invalid named range for {}: {}-{}",
                                             ax.name, <<>>, <<s.lo, s.hi>>))

\* BTreeSet::into_iter: the elements in ascending order
RECURSIVE into_iter(_)
into_iter(S) ==
    IF S = {} THEN <<>>
    ELSE LET m == CHOOSE x \in S : \A y \in S : x <= y
         IN  <<m>> \o into_iter(S \ {m})

\* variant: keeps the items whose value is a multiple of step
step_by_modulus(items, step) ==
    {items[i] : i \in {j \in 1..Len(items) : items[j] % step = 0}}

\* variant: keeps the items at positions step - 1, 2*step - 1, ...
step_by_skip_first(items, step) ==
    {items[i] : i \in {j \in 1..Len(items) : j % step = 0}}

\* Iterator::step_by followed by collect: the items at positions 0, step, 2*step, ...
step_by(items, step) ==
    {items[i] : i \in {j \in 1..Len(items) : (j - 1) % step = 0}}

\* variant: a Point base is resolved like any other specifier
base_set_point_only(ax, start) == ordinals_from_specifier(ax, start)

\* the base set of Period(start, step) once the step is accepted
base_set(ax, start) ==
    IF start.tag = "Point"
    THEN LET v == validate_ordinal(ax, start.v)
         IN  IF v.ok THEN Ok(v.val..ax.max) ELSE Err(v.err)
    ELSE ordinals_from_specifier(ax, start)

\* variant: no arm for a zero step, which then falls to the step bounds check
ordinals_from_root_specifier_no_zero_arm(ax, rs) ==
    CASE rs.tag = "Specifier" -> ordinals_from_specifier(ax, rs.spec)
      [] rs.tag = "Period" ->
            IF rs.step < 1 \/ rs.step > ax.max
            THEN Err(Expression("{} must be between 1 and {}. ('{}' specified.)",
                                ax.name, <<ax.max, rs.step>>, <<>>))
            ELSE LET base == base_set(ax, rs.base)
                 IN  IF base.ok THEN Ok(step_by(into_iter(base.set), rs.step))
                     ELSE Err(base.err)
      [] rs.tag = "NamedPoint" ->
            LET o == ordinal_from_name(ax, rs.name)
            IN  IF o.ok THEN Ok({o.val}) ELSE Err(o.err)

\* variant: the base is resolved before the step is checked against inclusive_max
ordinals_from_root_specifier_base_first(ax, rs) ==
    CASE rs.tag = "Specifier" -> ordinals_from_specifier(ax, rs.spec)
      [] rs.tag = "Period" /\ rs.step = 0 ->
            Err(Expression("range step cannot be zero", "", <<>>, <<>>))
      [] rs.tag = "Period" /\ rs.step # 0 ->
            LET base == base_set(ax, rs.base)
            IN  IF ~base.ok THEN Err(base.err)
                ELSE IF rs.step < 1 \/ rs.step > ax.max
                THEN Err(Expression("{} must be between 1 and {}. ('{}' specified.)",
                                    ax.name, <<ax.max, rs.step>>, <<>>))
                ELSE Ok(step_by(into_iter(base.set), rs.step))
      [] rs.tag = "NamedPoint" ->
            LET o == ordinal_from_name(ax, rs.name)
            IN  IF o.ok THEN Ok({o.val}) ELSE Err(o.err)

ordinals_from_root_specifier(ax, rs) ==
    CASE rs.tag = "Specifier" -> ordinals_from_specifier(ax, rs.spec)
      [] rs.tag = "Period" /\ rs.step = 0 ->
            Err(Expression("range step cannot be zero", "", <<>>, <<>>))
      [] rs.tag = "Period" /\ rs.step # 0 ->
            IF rs.step < 1 \/ rs.step > ax.max
            THEN Err(Expression("{} must be between 1 and {}. ('{}' specified.)",
                                ax.name, <<ax.max, rs.step>>, <<>>))
            ELSE LET base == base_set(ax, rs.base)
                 IN  IF base.ok THEN Ok(step_by(into_iter(base.set), rs.step))
                     ELSE Err(base.err)
      [] rs.tag = "NamedPoint" ->
            LET o == ordinal_from_name(ax, rs.name)
            IN  IF o.ok THEN Ok({o.val}) ELSE Err(o.err)

\* Option<OrdinalSet>
None == [some |-> FALSE, set |-> {}]

Some(set) == [some |-> TRUE, set |-> set]

\* a field that holds no explicit set stands for every supported ordinal
from_optional_ordinal_set(ax, opt) ==
    IF opt.some THEN opt.set ELSE supported_ordinals(ax)

all(ax) == from_optional_ordinal_set(ax, None)

from_ordinal_set(ax, set) == from_optional_ordinal_set(ax, Some(set))

from_ordinal(ax, ordinal) == from_ordinal_set(ax, {ordinal})

---------------------------------------------------------------------------
(* TimeUnitSpec: the query interface over ordinals() *)

includes(ordinals, ordinal) == ordinal \in ordinals

count(ordinals) == Cardinality(ordinals)

is_all(ax, ordinals) ==
    LET max_supported_ordinals == ax.max - ax.min + 1
    IN  Cardinality(ordinals) = max_supported_ordinals

---------------------------------------------------------------------------
(* Inputs *)

Values(ax) == 0..(ax.max + MaxOver)

EdgeValues(ax) == {v \in Values(ax) : v <= ax.min + MaxEdge \/ v >= ax.max - MaxEdge}

Steps(ax) == 0..(ax.max + MaxOver)

EdgeSteps(ax) == {s \in Steps(ax) : s <= MaxEdge + 1 \/ s >= ax.max}

SteppedEnds(ax) == IF ax.max <= MaxDense THEN Values(ax) ELSE EdgeValues(ax)

Specifiers(ax) ==
    {All} \cup {Point(v) : v \in Values(ax)}
          \cup {Range(lo, hi) : lo \in Values(ax), hi \in Values(ax)}
          \cup {NamedRange(a, b) : a \in Names, b \in Names}

SteppedBases(ax) ==
    {All} \cup {Point(v) : v \in Values(ax)}
          \cup {Range(lo, hi) : lo \in SteppedEnds(ax), hi \in SteppedEnds(ax)}
          \cup {NamedRange(a, b) : a \in Names, b \in Names}

RootSpecifiers(ax) ==
    {Specifier(s) : s \in Specifiers(ax)}
        \cup {Period(b, st) : b \in SteppedBases(ax), st \in Steps(ax)}
        \cup {NamedPoint(n) : n \in Names}

\* the clauses a field is built from
FieldClauses(ax) ==
    {Specifier(All)} \cup {Specifier(Point(v)) : v \in EdgeValues(ax)}
        \cup {Specifier(Range(lo, hi)) : lo \in EdgeValues(ax), hi \in EdgeValues(ax)}
        \cup {Period(b, st) : b \in {All} \cup {Point(v) : v \in EdgeValues(ax)},
                              st \in EdgeSteps(ax)}
        \cup {NamedPoint(n) : n \in Names}

---------------------------------------------------------------------------
(* The state machine *)

NoAnswer == [count |-> 0, is_all |-> FALSE, includes |-> {}]

Init ==
    /\ axis \in Axes
    /\ pc = "idle"
    /\ call = ""
    /\ arg = NoArg
    /\ result = NoResult
    /\ acc = {}
    /\ nclauses = 0
    /\ field = {}
    /\ answer = NoAnswer

\* T::ordinals_from_specifier(&specifier)
CallOrdinalsFromSpecifier ==
    /\ pc = "idle"
    /\ \E s \in Specifiers(axis) :
          /\ arg' = s
          /\ result' = ordinals_from_specifier(axis, s)
    /\ call' = "ordinals_from_specifier"
    /\ pc' = "resolved"
    /\ UNCHANGED <<axis, acc, nclauses, field, answer>>

\* T::ordinals_from_root_specifier(&root_specifier)
CallOrdinalsFromRootSpecifier ==
    /\ pc = "idle"
    /\ \E rs \in RootSpecifiers(axis) :
          /\ arg' = rs
          /\ result' = ordinals_from_root_specifier(axis, rs)
    /\ call' = "ordinals_from_root_specifier"
    /\ pc' = "resolved"
    /\ UNCHANGED <<axis, acc, nclauses, field, answer>>

\* one more clause of a field: resolved on its own and unioned into the
\* field's set; a failure aborts the field
AddClause ==
    /\ pc \in {"idle", "building"}
    /\ nclauses < MaxClauses
    /\ \E rs \in FieldClauses(axis) :
          LET r == ordinals_from_root_specifier(axis, rs)
          IN  IF r.ok
              THEN /\ acc' = acc \cup r.set
                   /\ nclauses' = nclauses + 1
                   /\ pc' = "building"
                   /\ UNCHANGED <<arg, result>>
              ELSE /\ pc' = "failed"
                   /\ arg' = rs
                   /\ result' = r
                   /\ UNCHANGED <<acc, nclauses>>
    /\ call' = "ordinals_from_root_specifier"
    /\ UNCHANGED <<axis, field, answer>>

\* T::from_ordinal_set(ordinals) on the union of the resolved clauses
ConstructFromOrdinalSet ==
    /\ pc = "building"
    /\ field' = from_ordinal_set(axis, acc)
    /\ call' = "from_ordinal_set"
    /\ pc' = "built"
    /\ UNCHANGED <<axis, arg, result, acc, nclauses, answer>>

\* T::all()
ConstructAll ==
    /\ pc = "idle"
    /\ field' = all(axis)
    /\ call' = "all"
    /\ pc' = "built"
    /\ UNCHANGED <<axis, arg, result, acc, nclauses, answer>>

\* T::from_ordinal(ordinal)
ConstructFromOrdinal ==
    /\ pc = "idle"
    /\ \E o \in EdgeValues(axis) : field' = from_ordinal(axis, o)
    /\ call' = "from_ordinal"
    /\ pc' = "built"
    /\ UNCHANGED <<axis, arg, result, acc, nclauses, answer>>

\* count(), is_all() and includes() on the constructed field
Query ==
    /\ pc = "built"
    /\ answer' = [count    |-> count(field),
                  is_all   |-> is_all(axis, field),
                  includes |-> {o \in Values(axis) : includes(field, o)}]
    /\ pc' = "queried"
    /\ UNCHANGED <<axis, call, arg, result, acc, nclauses, field>>

Next ==
    \/ CallOrdinalsFromSpecifier
    \/ CallOrdinalsFromRootSpecifier
    \/ AddClause
    \/ ConstructFromOrdinalSet
    \/ ConstructAll
    \/ ConstructFromOrdinal
    \/ Query

Spec == Init /\ [][Next]_vars

---------------------------------------------------------------------------
(* Properties *)

InBounds(ax, v) == ax.min <= v /\ v <= ax.max

ViaSpecifier == pc = "resolved" /\ call = "ordinals_from_specifier"

ViaRoot == pc = "resolved" /\ call = "ordinals_from_root_specifier"

\* the Specifier resolved by the last call, whichever entry point took it
ResolvedSpecifier ==
    IF ViaSpecifier THEN arg
    ELSE IF ViaRoot /\ arg.tag = "Specifier" THEN arg.spec
    ELSE NoArg

IsPeriod == ViaRoot /\ arg.tag = "Period"

StepAccepted == IsPeriod /\ 1 <= arg.step /\ arg.step <= axis.max

ZeroStepRule == "range step cannot be zero"

StepBoundsRule == "{} must be between 1 and {}. ('{}' specified.)"

InvalidRangeRule == "Invalid range for {}: {}-{}"

UnsupportedNameRule == "The '{}' field does not support using names. '{}' specified."

OutOfBoundsRules ==
    {"{} must be greater than or equal to {}. ('{}' specified.)",
     "{} must be less than {}. ('{}' specified.)"}

\* C1: resolving Point(v) validates v against [inclusive_min, inclusive_max]:
\* inside the bounds the result is {v}, outside them the resolution fails
\* with an out-of-bounds error and returns no set.
C1_PointIsValidated ==
    ResolvedSpecifier.tag = "Point" =>
        IF InBounds(axis, ResolvedSpecifier.v)
        THEN result.ok /\ result.set = {ResolvedSpecifier.v}
        ELSE ~result.ok /\ result.err.rule \in OutOfBoundsRules

\* C2: Period(Point(v), step) with v inside the bounds and
\* 1 <= step <= inclusive_max succeeds and yields exactly
\* {v + k*step : k >= 0, v + k*step <= inclusive_max}.
C2_PeriodFromPoint ==
    (StepAccepted /\ arg.base.tag = "Point" /\ InBounds(axis, arg.base.v)) =>
        /\ result.ok
        /\ result.set = {x \in arg.base.v..axis.max : (x - arg.base.v) % arg.step = 0}

C2_Witness ==
    /\ ViaRoot
    /\ axis = Minutes
    /\ arg = Period(Point(0), 15)
    /\ result.ok
    /\ result.set = {0, 15, 30, 45}

\* C3: Range(lo, hi) succeeds exactly when
\* inclusive_min <= lo <= hi <= inclusive_max, and then yields exactly lo..hi
\* (hi - lo + 1 values); in every other case it fails with the invalid-range
\* error and returns no set.
C3_Range ==
    ResolvedSpecifier.tag = "Range" =>
        LET lo == ResolvedSpecifier.lo
            hi == ResolvedSpecifier.hi
        IN  /\ result.ok <=> (axis.min <= lo /\ lo <= hi /\ hi <= axis.max)
            /\ result.ok => /\ result.set = lo..hi
                            /\ count(result.set) = hi - lo + 1
            /\ ~result.ok => /\ result.set = {}
                             /\ result.err.rule = InvalidRangeRule

C3_Witness ==
    /\ ViaSpecifier
    /\ axis = Hours
    /\ arg = Range(9, 17)
    /\ result.ok
    /\ result.set = 9..17
    /\ count(result.set) = 9

\* C4: for a field whose set is the union of successfully resolved clauses,
\* is_all() is true if and only if every value of
\* [inclusive_min, inclusive_max] is a member of the set; a field resolved
\* from All has inclusive_max - inclusive_min + 1 members and is_all() true.
C4_IsAllIffEverySupported ==
    (pc = "queried" /\ call \in {"from_ordinal_set", "all"}) =>
        /\ answer.is_all <=> (\A v \in axis.min..axis.max : v \in field)
        /\ call = "all" => /\ answer.count = axis.max - axis.min + 1
                           /\ answer.is_all

\* C5: Period(base, 0) fails with the zero-step error and returns no set,
\* whatever the axis and whatever the base (valid or not).
C5_ZeroStep ==
    (IsPeriod /\ arg.step = 0) =>
        /\ ~result.ok
        /\ result.set = {}
        /\ result.err.rule = ZeroStepRule

C5_Witness ==
    /\ IsPeriod
    /\ arg.step = 0
    /\ arg.base.tag = "Range"
    /\ arg.base.lo > arg.base.hi
    /\ ~result.ok
    /\ result.err.rule = ZeroStepRule

\* the literal values of the clause that break the rule the clause fails on
OffendingSpecifier(ax, s) ==
    CASE s.tag = "Point" -> {s.v}
      [] s.tag = "Range" -> {s.lo, s.hi}
      [] s.tag = "NamedRange" ->
            IF ~ax.named THEN {s.lo}
            ELSE IF to_lowercase(s.lo) \notin DOMAIN ax.table THEN {s.lo}
            ELSE IF to_lowercase(s.hi) \notin DOMAIN ax.table THEN {s.hi}
            ELSE {s.lo, s.hi}
      [] OTHER -> {}

Offending(ax, c) ==
    CASE c.tag = "Specifier" -> OffendingSpecifier(ax, c.spec)
      [] c.tag = "NamedPoint" -> {c.name}
      [] c.tag = "Period" ->
            IF c.step = 0 \/ c.step > ax.max THEN {c.step}
            ELSE OffendingSpecifier(ax, c.base)
      [] OTHER -> OffendingSpecifier(ax, c)

Mentioned(e) ==
    {e.nums[i] : i \in 1..Len(e.nums)} \cup {e.names[i] : i \in 1..Len(e.names)}

Failed == pc \in {"resolved", "failed"} /\ ~result.ok

NamesAxisRuleAndValues ==
    /\ result.err.axis = axis.name
    /\ result.err.rule # ""
    /\ Offending(axis, arg) \subseteq Mentioned(result.err)

\* C6 (as stated): every failure returned by clause resolution carries a
\* message that names the axis, the rule violated and the offending value(s).
C6_EveryErrorNamesAxis == Failed => NamesAxisRuleAndValues

\* C6 (amended): every failure of clause resolution other than the zero-step
\* failure carries a message naming the axis, the rule violated and the
\* offending value(s); the zero-step failure carries the fixed message
\* "range step cannot be zero", which names neither the axis nor the step.
C6_ErrorsNameAxisExceptZeroStep ==
    Failed =>
        IF arg.tag = "Period" /\ arg.step = 0
        THEN result.err = Expression(ZeroStepRule, "", <<>>, <<>>)
        ELSE NamesAxisRuleAndValues

C6_Witness ==
    /\ Failed
    /\ axis = DaysOfMonth
    /\ arg = Period(Point(32), 5)
    /\ result.err.axis = "Days of Month"
    /\ 32 \in Mentioned(result.err)

\* the names a named form looks up first
FirstName(c) ==
    CASE c.tag = "NamedPoint" -> c.name
      [] c.tag = "NamedRange" -> c.lo
      [] c.tag = "Specifier" -> c.spec.lo
      [] c.tag = "Period" -> c.base.lo

IsNamedForm(c) ==
    \/ c.tag \in {"NamedPoint", "NamedRange"}
    \/ c.tag = "Specifier" /\ c.spec.tag = "NamedRange"
    \/ c.tag = "Period" /\ c.base.tag = "NamedRange"

FailsUnsupportedName ==
    /\ ~result.ok
    /\ result.set = {}
    /\ result.err = Expression(UnsupportedNameRule, axis.name, <<>>, <<FirstName(arg)>>)

\* C7 (as stated): on an axis without a name table every named form,
\* Period(NamedRange, step) for every step included, fails with the
\* unsupported-name error naming the axis and the given name.
C7_NamedFormsUnsupported ==
    (pc = "resolved" /\ ~axis.named /\ IsNamedForm(arg)) => FailsUnsupportedName

\* C7 (amended): on an axis without a name table NamedPoint, NamedRange and
\* Period(NamedRange, step) with 1 <= step <= inclusive_max fail with the
\* unsupported-name error naming the axis and the given name;
\* Period(NamedRange, 0) fails with the zero-step error and
\* Period(NamedRange, step) with step > inclusive_max with the step bounds
\* error.
C7_NamedFormsUnsupportedUnlessStepRejected ==
    (pc = "resolved" /\ ~axis.named /\ IsNamedForm(arg)) =>
        IF arg.tag = "Period" /\ arg.step = 0
        THEN ~result.ok /\ result.err.rule = ZeroStepRule
        ELSE IF arg.tag = "Period" /\ arg.step > axis.max
        THEN ~result.ok /\ result.err.rule = StepBoundsRule
        ELSE FailsUnsupportedName

C7_Witness ==
    /\ ViaRoot
    /\ axis = Hours
    /\ arg = Period(NamedRange("JAN", "mar"), 2)
    /\ FailsUnsupportedName

\* C8: for a base other than Point that resolves to a set B, and
\* 1 <= step <= inclusive_max, Period(base, step) yields exactly the elements
\* of B at positions 0, step, 2*step, ... of B's ascending order; over
\* Range(lo, hi) that is {lo, lo + step, ...} within [lo, hi].
C8_PositionalStepping ==
    (StepAccepted /\ arg.base.tag # "Point"
                  /\ ordinals_from_specifier(axis, arg.base).ok) =>
        LET B == ordinals_from_specifier(axis, arg.base).set
        IN  /\ result.ok
            /\ result.set = {x \in B : Cardinality({y \in B : y < x}) % arg.step = 0}
            /\ arg.base.tag = "Range" =>
                  result.set = {x \in arg.base.lo..arg.base.hi :
                                    (x - arg.base.lo) % arg.step = 0}

C8_Witness ==
    /\ ViaRoot
    /\ axis = DaysOfMonth
    /\ arg = Period(All, 5)
    /\ result.ok
    /\ result.set = {1, 6, 11, 16, 21, 26, 31}

\* C9: Period(base, step) with step > inclusive_max fails with the step
\* bounds error naming the axis and the step, whatever the base (the check
\* comes before the base is resolved); with 1 <= step <= inclusive_max the
\* clause fails only if its base fails, and then with the base's error.
C9_StepBounds ==
    IsPeriod =>
        /\ arg.step > axis.max =>
              /\ ~result.ok
              /\ result.err = Expression(StepBoundsRule, axis.name,
                                         <<axis.max, arg.step>>, <<>>)
        /\ (StepAccepted /\ arg.base.tag = "Point") =>
              /\ result.ok <=> InBounds(axis, arg.base.v)
              /\ ~result.ok => result.err = validate_ordinal(axis, arg.base.v).err
        /\ (StepAccepted /\ arg.base.tag # "Point") =>
              /\ result.ok <=> ordinals_from_specifier(axis, arg.base).ok
              /\ ~result.ok => result.err = ordinals_from_specifier(axis, arg.base).err

C9_Witness ==
    /\ IsPeriod
    /\ axis = Hours
    /\ arg = Period(Range(5, 2), 24)
    /\ ~result.ok
    /\ result.err.rule = StepBoundsRule
    /\ result.err.nums = <<23, 24>>

\* C10: a successful ordinals_from_root_specifier never returns the empty
\* set; Period(base, step) keeps the smallest element of its base set, and
\* is exactly that element when step exceeds the size of the base set.
C10_NeverEmpty ==
    (ViaRoot /\ result.ok) =>
        /\ result.set # {}
        /\ arg.tag = "Period" =>
              LET B == base_set(axis, arg.base).set
                  first == CHOOSE x \in B : \A y \in B : x <= y
              IN  /\ B # {}
                  /\ first \in result.set
                  /\ arg.step >= Cardinality(B) => result.set = {first}

C10_Witness ==
    /\ ViaRoot
    /\ axis = Hours
    /\ arg = Period(Range(3, 4), 5)
    /\ result.ok
    /\ result.set = {3}

====
